---- MODULE Spec2Model ----
(***************************************************************************)
(* Placement / collision-resolution engine of the circuit layout           *)
(* generator (generate_circuit/collision_detector.py) together with the    *)
(* diagnostics of generate_circuit/position_recorder.py.                   *)
(*                                                                         *)
(* Numbers: the program works on Python floats.  The model is fixed point: *)
(* one design unit is U = 600 model units, so that every size, pin offset  *)
(* and mean used below is an integer.  cos/sin of the probe angles (all    *)
(* multiples of 30 or 45 degrees) are tabulated, rounded to 1/600 unit.    *)
(***************************************************************************)
EXTENDS Integers, Sequences, FiniteSets, TLC

U == 6 * 100

\* Bounds of the model
MaxComponents == 2
MaxRuns == 2

\* absent value: no explicit size, no candidate, no anchor
None == << >>

(***************************************************************************)
(* json_reader_and_drawer.py : sizes of the device and of the components   *)
(***************************************************************************)

\* get_chip_info: explicit layout_size, or the pin-count-derived fallback
\* (spacing/pad/leadlen defaults 1.5 / 1.5 / 1).
GetChipInfo(chip) ==
    LET core_width  == (5 * U) \div 2
        core_height == IF chip.pin_count <= 8 THEN 2 * U
                       ELSE IF chip.pin_count <= 14 THEN 3 * U
                       ELSE IF chip.pin_count <= 16 THEN (7 * U) \div 2
                       ELSE 2 * U + ((chip.pin_count - 8) * U) \div 5
        pad     == (3 * U) \div 2
        leadlen == U
        chip_width  == IF chip.layout_size # None THEN chip.layout_size[1]
                       ELSE core_width + 2 * (leadlen + pad)
        chip_height == IF chip.layout_size # None THEN chip.layout_size[2]
                       ELSE core_height + 2 * pad
    IN  [position |-> <<0, 0>>,
         bbox |-> [x_min |-> 0 - (chip_width \div 2), x_max |-> chip_width \div 2,
                   y_min |-> 0 - (chip_height \div 2), y_max |-> chip_height \div 2,
                   width |-> chip_width, height |-> chip_height]]

\* _get_component_basic_size: explicit layout_size, else the per-type default
GetComponentBasicSize(comp) ==
    IF comp.layout_size # None THEN comp.layout_size
    ELSE CASE comp.type = "resistor"       -> <<3 * U, (4 * U) \div 5>>
           [] comp.type = "capacitor"      -> <<2 * U, (3 * U) \div 2>>
           [] comp.type = "LED"            -> <<(3 * U) \div 2, (3 * U) \div 2>>
           [] comp.type = "ground"         -> <<(6 * U) \div 5, (6 * U) \div 5>>
           [] comp.type = "voltage_source" -> <<(5 * U) \div 2, (5 * U) \div 2>>
           [] OTHER                        -> <<2 * U, U>>

\* get_component_info: one record per component, in input order
GetComponentInfo(comps) ==
    [i \in 1..Len(comps) |->
        [type |-> comps[i].type,
         width |-> GetComponentBasicSize(comps[i])[1],
         height |-> GetComponentBasicSize(comps[i])[2],
         connected_pins |-> comps[i].pins]]

(***************************************************************************)
(* Inputs                                                                  *)
(***************************************************************************)

\* the device: sized from its pin count, or with an explicit (large) size
ChipDefault == [layout_size |-> None, pin_count |-> 8]

ChipLarge == [layout_size |-> <<40 * U, 40 * U>>, pin_count |-> 8]

\* devices with an explicit small size: 2 x 1 and 1 x 1
ChipMinimal == [layout_size |-> <<2 * U, U>>, pin_count |-> 8]

ChipSmall == [layout_size |-> <<U, U>>, pin_count |-> 8]

Catalogue ==
    { [type |-> "resistor",       layout_size |-> <<4 * U, U>>,       pins |-> <<2>>],
      [type |-> "LED",            layout_size |-> None,               pins |-> << >>],
      [type |-> "voltage_source", layout_size |-> <<50 * U, 50 * U>>, pins |-> <<2>>],
      [type |-> "ground",         layout_size |-> None,               pins |-> <<1, 4, 12>>],
      [type |-> "resistor",       layout_size |-> <<0, U>>,           pins |-> <<7>>] }

PinNumbers == 1..10

PinLists == { << >> } \cup { <<p>> : p \in PinNumbers } \cup
            { <<p, q>> : p \in PinNumbers, q \in PinNumbers }

RECURSIVE SeqsUpTo(_, _)
SeqsUpTo(S, n) ==
    IF n = 0 THEN { << >> }
    ELSE LET shorter == SeqsUpTo(S, n - 1)
         IN  shorter \cup { Append(s, e) : s \in { t \in shorter : Len(t) = n - 1 }, e \in S }

\* <<device, components>>: every sequence of catalogue components around the
\* default device, a single component with any short pin list around either
\* device, a single component whose size is given with a negative width, and
\* a single small component around either small device
Inputs ==
    { <<ChipDefault, comps>> : comps \in SeqsUpTo(Catalogue, MaxComponents) } \cup
    { <<chip, << [type |-> "capacitor", layout_size |-> <<2 * U, U>>, pins |-> L] >> >> :
          chip \in {ChipDefault, ChipLarge}, L \in PinLists } \cup
    { <<ChipDefault, << [type |-> "capacitor", layout_size |-> <<0 - 2 * U, U>>,
                         pins |-> <<p>>] >> >> : p \in PinNumbers } \cup
    { <<chip, << [type |-> "LED", layout_size |-> <<(3 * U) \div 5, (3 * U) \div 5>>,
                  pins |-> L] >> >> :
          chip \in {ChipMinimal, ChipSmall}, L \in { << >>, <<2>>, <<4>> } }

VARIABLES
    chip_info,            \* CollisionDetector.chip_info
    component_info,       \* CollisionDetector.component_info (input order)
    adjusted_positions,   \* CollisionDetector.adjusted_positions
    pc,                   \* "idle", "loop", "search", "done"
    sorted_components,    \* processing order of the current run
    idx,                  \* index into sorted_components
    attempt,              \* loop variable of the search
    cand,                 \* candidate position (x, y) of the search
    original,             \* (original_x, original_y), set after attempt 0 collides
    placed_by,            \* per component of the current run: "accept" or "fallback"
    anchor_used,          \* per component: the estimate the search started from
    runs,                 \* completed calls of detect_and_resolve_collisions
    first_layout,         \* adjusted_positions at the end of the first run
    est,                  \* value returned by a direct call of the estimator just made
    placement_info,       \* diagnostics returned by the position recorder
    nets,                 \* JsonReaderAndDrawer.nets, in input order
    component_to_pins,    \* JsonReaderAndDrawer.component_to_pins
    yolo                  \* what the last export of the current layout returned and wrote

vars == <<chip_info, component_info, adjusted_positions, pc, sorted_components,
          idx, attempt, cand, original, placed_by, anchor_used, runs,
          first_layout, est, placement_info, nets, component_to_pins, yolo>>

Ids == DOMAIN component_info

(***************************************************************************)
(* collision_detector.py : geometry                                        *)
(***************************************************************************)

\* the box test with boxes at exactly the margin counted as separate
CheckBboxCollision_nonStrict(bbox1, bbox2, margin) ==
    ~ (\/ bbox1.x_max + margin <= bbox2.x_min
       \/ bbox2.x_max + margin <= bbox1.x_min
       \/ bbox1.y_max + margin <= bbox2.y_min
       \/ bbox2.y_max + margin <= bbox1.y_min)

\* _check_bbox_collision
CheckBboxCollision(bbox1, bbox2, margin) ==
    ~ (\/ bbox1.x_max + margin < bbox2.x_min
       \/ bbox2.x_max + margin < bbox1.x_min
       \/ bbox1.y_max + margin < bbox2.y_min
       \/ bbox2.y_max + margin < bbox1.y_min)

\* the device check with the box test left at its default margin of 1.0
CheckCollisionWithChip_defaultMargin(bbox) ==
    LET margin == 2 * U
        chip_bbox == chip_info.bbox
        chip_bbox_with_margin ==
            [x_min |-> chip_bbox.x_min - margin, x_max |-> chip_bbox.x_max + margin,
             y_min |-> chip_bbox.y_min - margin, y_max |-> chip_bbox.y_max + margin]
    IN  CheckBboxCollision(bbox, chip_bbox_with_margin, U)

\* the device check with no clearance around the device
CheckCollisionWithChip_noMargin(bbox) == CheckBboxCollision(bbox, chip_info.bbox, 0)

\* _check_collision_with_chip (margin defaults to 2.0)
CheckCollisionWithChip(bbox) ==
    LET margin == 2 * U
        chip_bbox == chip_info.bbox
        chip_bbox_with_margin ==
            [x_min |-> chip_bbox.x_min - margin, x_max |-> chip_bbox.x_max + margin,
             y_min |-> chip_bbox.y_min - margin, y_max |-> chip_bbox.y_max + margin]
    IN  CheckBboxCollision(bbox, chip_bbox_with_margin, 0)

\* _create_bbox_from_position
CreateBboxFromPosition(x, y, width, height) ==
    [x_min |-> x - (width \div 2), x_max |-> x + (width \div 2),
     y_min |-> y - (height \div 2), y_max |-> y + (height \div 2),
     width |-> width, height |-> height]

(***************************************************************************)
(* collision_detector.py : ideal-position estimator                        *)
(***************************************************************************)

\* _get_pin_position_on_chip: <<side, offset>>
GetPinPositionOnChip(pin_number) ==
    CASE pin_number = 1 -> <<"bot", 0>>
      [] pin_number = 2 -> <<"left", U \div 2>>
      [] pin_number = 3 -> <<"right", 0>>
      [] pin_number = 4 -> <<"top", 0 - (U \div 2)>>
      [] pin_number = 5 -> <<"right", U>>
      [] pin_number = 6 -> <<"left", 0 - (U \div 2)>>
      [] pin_number = 7 -> <<"left", U>>
      [] pin_number = 8 -> <<"top", U \div 2>>
      [] pin_number = 9 -> <<"right", 0 - U>>
      [] OTHER -> <<"right", 0>>

\* PinAnchor with the sign of the bottom row lost
PinAnchor_botUp(side, offset) ==
    CASE side = "left"  -> <<0 - 3 * U, (offset * 3) \div 2>>
      [] side = "right" -> <<3 * U, (offset * 3) \div 2>>
      [] side = "top"   -> <<(offset * 3) \div 2, (5 * U) \div 2>>
      [] side = "bot"   -> <<(offset * 3) \div 2, (5 * U) \div 2>>
      [] OTHER          -> <<2 * U, 2 * U>>

\* the per-pin branch of _calculate_optimal_position
PinAnchor(side, offset) ==
    CASE side = "left"  -> <<0 - 3 * U, (offset * 3) \div 2>>
      [] side = "right" -> <<3 * U, (offset * 3) \div 2>>
      [] side = "top"   -> <<(offset * 3) \div 2, (5 * U) \div 2>>
      [] side = "bot"   -> <<(offset * 3) \div 2, 0 - ((5 * U) \div 2)>>
      [] OTHER          -> <<2 * U, 2 * U>>

\* the accumulation loop of _calculate_optimal_position: (total_x, total_y)
RECURSIVE TotalAnchors(_)
TotalAnchors(pins) ==
    IF pins = << >> THEN <<0, 0>>
    ELSE LET sp == GetPinPositionOnChip(Head(pins))
             a  == PinAnchor(sp[1], sp[2])
             r  == TotalAnchors(Tail(pins))
         IN  <<a[1] + r[1], a[2] + r[2]>>

\* the estimator with the pin-less default taken from the unknown-pin default
CalculateOptimalPosition_rightDefault(component_id) ==
    LET connected_pins == component_info[component_id].connected_pins
        total == TotalAnchors(connected_pins)
    IN  IF connected_pins = << >> THEN <<3 * U, 0>>
        ELSE <<total[1] \div Len(connected_pins), total[2] \div Len(connected_pins)>>

\* the estimator answering with the recorded position once one exists
CalculateOptimalPosition_cached(component_id) ==
    LET connected_pins == component_info[component_id].connected_pins
        total == TotalAnchors(connected_pins)
    IN  IF component_id \in DOMAIN adjusted_positions
        THEN adjusted_positions[component_id].position
        ELSE IF connected_pins = << >> THEN <<2 * U, 2 * U>>
        ELSE <<total[1] \div Len(connected_pins), total[2] \div Len(connected_pins)>>

\* _calculate_optimal_position
CalculateOptimalPosition(component_id) ==
    LET connected_pins == component_info[component_id].connected_pins
        total == TotalAnchors(connected_pins)
    IN  IF connected_pins = << >> THEN <<2 * U, 2 * U>>
        ELSE <<total[1] \div Len(connected_pins), total[2] \div Len(connected_pins)>>

(***************************************************************************)
(* collision_detector.py : search                                          *)
(***************************************************************************)

max_attempts == 50

\* 10000 * cos(angle) for the angles the search uses (multiples of 30 and 45)
Cos10k(angle) ==
    CASE angle = 0   -> 10000
      [] angle = 30  -> 8660
      [] angle = 45  -> 7071
      [] angle = 60  -> 5000
      [] angle = 90  -> 0
      [] angle = 120 -> 0 - 5000
      [] angle = 135 -> 0 - 7071
      [] angle = 150 -> 0 - 8660
      [] angle = 180 -> 0 - 10000
      [] angle = 210 -> 0 - 8660
      [] angle = 225 -> 0 - 7071
      [] angle = 240 -> 0 - 5000
      [] angle = 270 -> 0
      [] angle = 300 -> 5000
      [] angle = 315 -> 7071
      [] angle = 330 -> 8660

Sin10k(angle) == Cos10k((angle + 270) % 360)

\* angle of the probe computed after a collision at the given attempt
ProbeAngle(k) == IF k < 8 THEN k * 45 ELSE (k * 30) % 360

\* twice the radius of that probe (search_radius = 1.0)
ProbeRadius2(k) == IF k < 8 THEN 2 ELSE 2 + (k - 8)

\* radius * cos, in model units, rounded to the nearest
Scaled(radius2, c10k) == (radius2 * c10k * (U \div 2) + 5000) \div 10000

\* the next candidate: an offset from (original_x, original_y)
NextCandidate(orig, k) ==
    <<orig[1] + Scaled(ProbeRadius2(k), Cos10k(ProbeAngle(k))),
      orig[2] + Scaled(ProbeRadius2(k), Sin10k(ProbeAngle(k)))>>

\* the collision test with no clearance kept between two components
HasCollision_noMargin(component_id, pos) ==
    LET component == component_info[component_id]
        test_bbox == CreateBboxFromPosition(pos[1], pos[2], component.width, component.height)
    IN  \/ CheckCollisionWithChip(test_bbox)
        \/ \E placed_comp_id \in DOMAIN adjusted_positions :
              /\ placed_comp_id # component_id
              /\ LET placed_info == adjusted_positions[placed_comp_id]
                     placed_bbox == CreateBboxFromPosition(
                                        placed_info.position[1], placed_info.position[2],
                                        placed_info.width, placed_info.height)
                 IN  CheckBboxCollision(test_bbox, placed_bbox, 0)

\* the collision test against the device alone
HasCollision_deviceOnly(component_id, pos) ==
    LET component == component_info[component_id]
        test_bbox == CreateBboxFromPosition(pos[1], pos[2], component.width, component.height)
    IN  CheckCollisionWithChip(test_bbox)

\* the collision test of one attempt: device first, then every recorded
\* component other than the one being placed
HasCollision(component_id, pos) ==
    LET component == component_info[component_id]
        test_bbox == CreateBboxFromPosition(pos[1], pos[2], component.width, component.height)
    IN  \/ CheckCollisionWithChip(test_bbox)
        \/ \E placed_comp_id \in DOMAIN adjusted_positions :
              /\ placed_comp_id # component_id
              /\ LET placed_info == adjusted_positions[placed_comp_id]
                     placed_bbox == CreateBboxFromPosition(
                                        placed_info.position[1], placed_info.position[2],
                                        placed_info.width, placed_info.height)
                 IN  CheckBboxCollision(test_bbox, placed_bbox, U)

\* the far placement replaced by a return to the estimate
FarPlacement_atIdeal(component_id) == CalculateOptimalPosition(component_id)

\* the far placement keyed off the last connected pin
FarPlacement_lastPin(component_id) ==
    LET connected_pins == component_info[component_id].connected_pins
        sp == GetPinPositionOnChip(connected_pins[Len(connected_pins)])
    IN  IF connected_pins # << >>
        THEN CASE sp[1] = "left"  -> <<0 - 10 * U, sp[2] * 3>>
               [] sp[1] = "right" -> <<10 * U, sp[2] * 3>>
               [] sp[1] = "top"   -> <<sp[2] * 3, 8 * U>>
               [] sp[1] = "bot"   -> <<sp[2] * 3, 0 - 8 * U>>
               [] OTHER           -> <<10 * U, 6 * U>>
        ELSE <<10 * U, 6 * U>>

\* the far placement used when every attempt collided
FarPlacement(component_id) ==
    LET connected_pins == component_info[component_id].connected_pins
        sp == GetPinPositionOnChip(Head(connected_pins))
    IN  IF connected_pins # << >>
        THEN CASE sp[1] = "left"  -> <<0 - 10 * U, sp[2] * 3>>
               [] sp[1] = "right" -> <<10 * U, sp[2] * 3>>
               [] sp[1] = "top"   -> <<sp[2] * 3, 8 * U>>
               [] sp[1] = "bot"   -> <<sp[2] * 3, 0 - 8 * U>>
               [] OTHER           -> <<10 * U, 6 * U>>
        ELSE <<10 * U, 6 * U>>

\* the record detect_and_resolve_collisions stores for a placed component
PositionRecord(component_id, pos) ==
    LET component == component_info[component_id]
    IN  [position |-> pos,
         type |-> component.type,
         width |-> component.width,
         height |-> component.height,
         connected_pins |-> component.connected_pins,
         bbox |-> CreateBboxFromPosition(pos[1], pos[2], component.width, component.height)]

\* the processing order left as the input order
SortedComponents_inputOrder == [r \in 1..Len(component_info) |-> r]

\* sorted(..., key=len(connected_pins), reverse=True): stable, descending
SortedComponents ==
    LET n == Len(component_info)
        key(i) == Len(component_info[i].connected_pins)
        rank(i) == Cardinality({ j \in 1..n : \/ key(j) > key(i)
                                              \/ key(j) = key(i) /\ j < i }) + 1
    IN  [r \in 1..n |-> CHOOSE i \in 1..n : rank(i) = r]

(***************************************************************************)
(* position_recorder.py : diagnostics                                      *)
(***************************************************************************)

\* floor of the square root, by bisection
RECURSIVE Bisect(_, _, _)
Bisect(n, lo, hi) ==
    IF lo >= hi THEN lo
    ELSE LET mid == (lo + hi + 1) \div 2
         IN  IF mid * mid <= n THEN Bisect(n, mid, hi) ELSE Bisect(n, lo, mid - 1)

ISqrt(n) == Bisect(n, 0, 46340)

\* squared distance between two positions
Dist2(p, q) == (p[1] - q[1]) * (p[1] - q[1]) + (p[2] - q[2]) * (p[2] - q[2])

\* the check with the threshold at 1.5
CheckIfOptimalPosition_wide(comp_id, position_info) ==
    LET optimal_pos == CalculateOptimalPosition(comp_id)
        actual_pos == position_info.position
    IN  4 * Dist2(optimal_pos, actual_pos) < 9 * U * U

\* _check_if_optimal_position: distance < 0.5
CheckIfOptimalPosition(comp_id, position_info) ==
    LET optimal_pos == CalculateOptimalPosition(comp_id)
        actual_pos == position_info.position
    IN  4 * Dist2(optimal_pos, actual_pos) < U * U

\* _calculate_distance_from_optimal: round(distance, 2), in hundredths of a unit
CalculateDistanceFromOptimal(comp_id, position_info) ==
    LET optimal_pos == CalculateOptimalPosition(comp_id)
        actual_pos == position_info.position
    IN  (ISqrt(Dist2(optimal_pos, actual_pos)) + (U \div 200)) \div (U \div 100)

\* the placement_info part of _create_components_layout_info
CreateComponentsLayoutInfo ==
    [comp_id \in DOMAIN adjusted_positions |->
        [optimal_pos |-> CalculateOptimalPosition(comp_id),
         optimal_position_achieved |->
             CheckIfOptimalPosition(comp_id, adjusted_positions[comp_id]),
         distance_from_optimal |->
             CalculateDistanceFromOptimal(comp_id, adjusted_positions[comp_id])]]

\* optimal_position_rate_percentage of _calculate_layout_statistics, in
\* hundredths of a percent
OptimalPositionRate ==
    LET component_positions == DOMAIN adjusted_positions
        optimal_count == Cardinality({ comp_id \in component_positions :
                             CheckIfOptimalPosition(comp_id, adjusted_positions[comp_id]) })
    IN  IF component_positions # {}
        THEN (2 * 10000 * optimal_count + Cardinality(component_positions))
                 \div (2 * Cardinality(component_positions))
        ELSE 0

(***************************************************************************)
(* position_recorder.py : annotation export                                *)
(*                                                                         *)
(* A normalised value is kept as the exact fraction <<numerator,           *)
(* denominator>> (the denominator is the canvas width or height); the      *)
(* value written to the annotation file is that fraction printed with six  *)
(* decimals, kept as an integer number of millionths.                      *)
(***************************************************************************)

\* the code points of the type names, as Python compares strings
CodePoints(name) ==
    CASE name = "LED"            -> <<76, 69, 68>>
      [] name = "capacitor"      -> <<99, 97, 112, 97, 99, 105, 116, 111, 114>>
      [] name = "chip"           -> <<99, 104, 105, 112>>
      [] name = "ground"         -> <<103, 114, 111, 117, 110, 100>>
      [] name = "resistor"       -> <<114, 101, 115, 105, 115, 116, 111, 114>>
      [] name = "voltage_source" -> <<118, 111, 108, 116, 97, 103, 101, 95,
                                      115, 111, 117, 114, 99, 101>>

\* lexicographic order on sequences of code points: a < b
RECURSIVE SeqLess(_, _)
SeqLess(a, b) ==
    IF b = << >> THEN FALSE
    ELSE IF a = << >> THEN TRUE
    ELSE IF Head(a) # Head(b) THEN Head(a) < Head(b)
    ELSE SeqLess(Tail(a), Tail(b))

\* str.__lt__ on type names
StrLess(a, b) == SeqLess(CodePoints(a), CodePoints(b))

\* _get_component_class_mapping: <<class_mapping, sorted_types>>
GetComponentClassMapping ==
    LET component_types ==
            { adjusted_positions[c].type : c \in DOMAIN adjusted_positions } \cup {"chip"}
        index(t) == Cardinality({ u \in component_types : StrLess(u, t) })
    IN  << [t \in component_types |-> index(t)],
           [i \in 1..Cardinality(component_types) |->
               CHOOSE t \in component_types : index(t) = i - 1] >>

\* least and greatest element of a non-empty set of integers
Min(S) == CHOOSE v \in S : \A w \in S : v <= w

Max(S) == CHOOSE v \in S : \A w \in S : v >= w

\* the overall box taken over the components alone (the device's own box
\* when there is no component)
OverallBoundingBox_noDevice ==
    LET all_x_coords == { adjusted_positions[c].bbox.x_min : c \in DOMAIN adjusted_positions }
                        \cup { adjusted_positions[c].bbox.x_max : c \in DOMAIN adjusted_positions }
        all_y_coords == { adjusted_positions[c].bbox.y_min : c \in DOMAIN adjusted_positions }
                        \cup { adjusted_positions[c].bbox.y_max : c \in DOMAIN adjusted_positions }
    IN  IF DOMAIN adjusted_positions = {} THEN chip_info.bbox
        ELSE [x_min |-> Min(all_x_coords), x_max |-> Max(all_x_coords),
              y_min |-> Min(all_y_coords), y_max |-> Max(all_y_coords)]

\* overall_bounding_box of _calculate_layout_statistics
OverallBoundingBox ==
    LET all_x_coords == { adjusted_positions[c].bbox.x_min : c \in DOMAIN adjusted_positions }
                        \cup { adjusted_positions[c].bbox.x_max : c \in DOMAIN adjusted_positions }
                        \cup { chip_info.bbox.x_min, chip_info.bbox.x_max }
        all_y_coords == { adjusted_positions[c].bbox.y_min : c \in DOMAIN adjusted_positions }
                        \cup { adjusted_positions[c].bbox.y_max : c \in DOMAIN adjusted_positions }
                        \cup { chip_info.bbox.y_min, chip_info.bbox.y_max }
    IN  [x_min |-> Min(all_x_coords), x_max |-> Max(all_x_coords),
         y_min |-> Min(all_y_coords), y_max |-> Max(all_y_coords)]

\* _calculate_canvas_size
CalculateCanvasSize ==
    LET overall_bbox == OverallBoundingBox
        margin == 2 * U
    IN  [canvas_width    |-> overall_bbox.x_max - overall_bbox.x_min + 2 * margin,
         canvas_height   |-> overall_bbox.y_max - overall_bbox.y_min + 2 * margin,
         canvas_origin_x |-> overall_bbox.x_min - margin,
         canvas_origin_y |-> overall_bbox.y_max + margin]

\* max(0, min(1, num / den)) for den > 0, as a fraction over den
Clamp01(num, den) ==
    LET low == IF den < num THEN den ELSE num
    IN  <<IF 0 > low THEN 0 ELSE low, den>>

\* the conversion without the final clamping
ConvertToYoloFormat_noClamp(x, y, width, height, canvas) ==
    LET canvas_x == x - canvas.canvas_origin_x
        canvas_y == canvas.canvas_origin_y - y
    IN  [x_center |-> <<canvas_x, canvas.canvas_width>>,
         y_center |-> <<canvas_y, canvas.canvas_height>>,
         width    |-> <<width, canvas.canvas_width>>,
         height   |-> <<height, canvas.canvas_height>>]

\* the conversion with the vertical axis left as it is
ConvertToYoloFormat_noFlip(x, y, width, height, canvas) ==
    LET canvas_x == x - canvas.canvas_origin_x
        canvas_y == y - canvas.canvas_origin_y
    IN  [x_center |-> Clamp01(canvas_x, canvas.canvas_width),
         y_center |-> Clamp01(canvas_y, canvas.canvas_height),
         width    |-> Clamp01(width, canvas.canvas_width),
         height   |-> Clamp01(height, canvas.canvas_height)]

\* _convert_to_yolo_format
ConvertToYoloFormat(x, y, width, height, canvas) ==
    LET canvas_x == x - canvas.canvas_origin_x
        canvas_y == canvas.canvas_origin_y - y
    IN  [x_center |-> Clamp01(canvas_x, canvas.canvas_width),
         y_center |-> Clamp01(canvas_y, canvas.canvas_height),
         width    |-> Clamp01(width, canvas.canvas_width),
         height   |-> Clamp01(height, canvas.canvas_height)]

\* long division: k more decimals of r / den appended to acc, the last rounded
RECURSIVE Decimals(_, _, _, _)
Decimals(r, den, k, acc) ==
    IF k = 0 THEN (IF 2 * r >= den THEN acc + 1 ELSE acc)
    ELSE Decimals((r * 10) % den, den, k - 1, acc * 10 + ((r * 10) \div den))

\* f"{value:.6f}" of the fraction, in millionths
Format6(fraction) ==
    LET num == fraction[1]
        den == fraction[2]
    IN  IF num >= 0 THEN Decimals(num % den, den, 6, num \div den)
        ELSE 0 - Decimals((0 - num) % den, den, 6, (0 - num) \div den)

\* one line of the annotation file; tag is the trailing comment (none for the device)
AnnotationLine(class_id, norm, tag) ==
    [class_id |-> class_id,
     x_center |-> Format6(norm.x_center),
     y_center |-> Format6(norm.y_center),
     width    |-> Format6(norm.width),
     height   |-> Format6(norm.height),
     tag      |-> tag]

\* the yolo_annotations list of save_yolo_annotations: the device first, then
\* the components by ascending id
YoloAnnotations ==
    LET class_mapping == GetComponentClassMapping[1]
        canvas == CalculateCanvasSize
        ids == DOMAIN adjusted_positions
        nth(i) == CHOOSE c \in ids : Cardinality({ d \in ids : d < c }) = i - 1
        chip_line == AnnotationLine(class_mapping["chip"],
                         ConvertToYoloFormat(chip_info.position[1], chip_info.position[2],
                                             chip_info.bbox.width, chip_info.bbox.height, canvas),
                         << >>)
        comp_line(c) == LET pos_info == adjusted_positions[c]
                        IN  AnnotationLine(class_mapping[pos_info.type],
                                ConvertToYoloFormat(pos_info.position[1], pos_info.position[2],
                                                    pos_info.width, pos_info.height, canvas),
                                <<c, pos_info.type>>)
    IN  <<chip_line>> \o [i \in 1..Cardinality(ids) |-> comp_line(nth(i))]

\* what save_yolo_annotations writes and returns
YoloExport ==
    [canvas_size   |-> <<CalculateCanvasSize.canvas_width, CalculateCanvasSize.canvas_height>>,
     canvas_origin |-> <<CalculateCanvasSize.canvas_origin_x, CalculateCanvasSize.canvas_origin_y>>,
     class_mapping |-> GetComponentClassMapping[1],
     class_names   |-> GetComponentClassMapping[2],
     annotations   |-> YoloAnnotations,
     total_objects |-> Len(YoloAnnotations)]

(***************************************************************************)
(* State machine                                                           *)
(***************************************************************************)

Empty == << >>

\* no estimator call has just returned
NoEstimate == [comp |-> 0, value |-> None]

Init ==
    \E input \in Inputs :
        /\ chip_info = GetChipInfo(input[1])
        /\ component_info = GetComponentInfo(input[2])
        /\ adjusted_positions = Empty
        /\ pc = "idle"
        /\ sorted_components = << >>
        /\ idx = 0
        /\ attempt = 0
        /\ cand = None
        /\ original = None
        /\ placed_by = Empty
        /\ anchor_used = Empty
        /\ runs = 0
        /\ first_layout = Empty
        /\ est = NoEstimate
        /\ placement_info = Empty
        /\ nets = << >>
        /\ component_to_pins = Empty
        /\ yolo = None

Current == sorted_components[idx]

\* the sort replaced by one that leaves the order of equal keys open
DetectAndResolveCollisions_anyOrder ==
    /\ pc \in {"idle", "done"}
    /\ runs < MaxRuns
    /\ \E order \in [1..Len(component_info) -> Ids] :
          /\ \A i \in Ids : \E r \in 1..Len(component_info) : order[r] = i
          /\ \A r \in 1..(Len(component_info) - 1) :
                 Len(component_info[order[r]].connected_pins) >=
                     Len(component_info[order[r + 1]].connected_pins)
          /\ sorted_components' = order
    /\ idx' = 1
    /\ pc' = "loop"
    /\ placed_by' = Empty
    /\ placement_info' = Empty
    /\ est' = NoEstimate
    /\ UNCHANGED <<chip_info, component_info, adjusted_positions, attempt, cand,
                   original, anchor_used, runs, first_layout>>
    /\ yolo' = None
    /\ UNCHANGED <<nets, component_to_pins>>

\* detect_and_resolve_collisions, entry: the processing order is fixed;
\* adjusted_positions is left as the previous run wrote it
DetectAndResolveCollisions ==
    /\ pc \in {"idle", "done"}
    /\ runs < MaxRuns
    /\ sorted_components' = SortedComponents
    /\ idx' = 1
    /\ pc' = "loop"
    /\ placed_by' = Empty
    /\ placement_info' = Empty
    /\ est' = NoEstimate
    /\ UNCHANGED <<chip_info, component_info, adjusted_positions, attempt, cand,
                   original, anchor_used, runs, first_layout>>
    /\ yolo' = None
    /\ UNCHANGED <<nets, component_to_pins>>

\* _adjust_position_to_avoid_collision, entry: the candidate is the estimate
BeginComponent ==
    /\ pc = "loop"
    /\ idx <= Len(sorted_components)
    /\ cand' = CalculateOptimalPosition(Current)
    /\ anchor_used' = [c \in DOMAIN anchor_used \cup {Current} |->
                          IF c = Current THEN CalculateOptimalPosition(Current)
                          ELSE anchor_used[c]]
    /\ attempt' = 0
    /\ original' = None
    /\ pc' = "search"
    /\ est' = NoEstimate
    /\ UNCHANGED <<chip_info, component_info, adjusted_positions, sorted_components,
                   idx, placed_by, runs, first_layout, placement_info>>
    /\ UNCHANGED <<nets, component_to_pins, yolo>>

\* the write without the step to the next component
Record_noAdvance(pos, how) ==
    /\ adjusted_positions' =
           [c \in DOMAIN adjusted_positions \cup {Current} |->
               IF c = Current THEN PositionRecord(Current, pos) ELSE adjusted_positions[c]]
    /\ placed_by' = [c \in DOMAIN placed_by \cup {Current} |->
                        IF c = Current THEN how ELSE placed_by[c]]
    /\ idx' = idx
    /\ attempt' = 0
    /\ cand' = None
    /\ original' = None
    /\ pc' = "loop"

\* the write of adjusted_positions[comp_id] and the step to the next component
Record(pos, how) ==
    /\ adjusted_positions' =
           [c \in DOMAIN adjusted_positions \cup {Current} |->
               IF c = Current THEN PositionRecord(Current, pos) ELSE adjusted_positions[c]]
    /\ placed_by' = [c \in DOMAIN placed_by \cup {Current} |->
                        IF c = Current THEN how ELSE placed_by[c]]
    /\ idx' = idx + 1
    /\ attempt' = 0
    /\ cand' = None
    /\ original' = None
    /\ pc' = "loop"

\* an attempt without collision: the candidate is returned and recorded
Accept ==
    /\ pc = "search"
    /\ attempt < max_attempts
    /\ ~ HasCollision(Current, cand)
    /\ Record(cand, "accept")
    /\ est' = NoEstimate
    /\ UNCHANGED <<chip_info, component_info, sorted_components, anchor_used,
                   runs, first_layout, placement_info>>
    /\ UNCHANGED <<nets, component_to_pins, yolo>>

\* a probe that walks on from the candidate that just failed
Probe_fromLast ==
    /\ pc = "search"
    /\ attempt < max_attempts
    /\ HasCollision(Current, cand)
    /\ LET orig == IF attempt = 0 THEN CalculateOptimalPosition(Current) ELSE original
       IN  /\ original' = orig
           /\ cand' = NextCandidate(cand, attempt)
    /\ attempt' = attempt + 1
    /\ est' = NoEstimate
    /\ UNCHANGED <<chip_info, component_info, adjusted_positions, pc, sorted_components,
                   idx, placed_by, anchor_used, runs, first_layout, placement_info>>
    /\ UNCHANGED <<nets, component_to_pins, yolo>>

\* a probe that does not advance the attempt counter
Probe_noCount ==
    /\ pc = "search"
    /\ attempt < max_attempts
    /\ HasCollision(Current, cand)
    /\ LET orig == IF attempt = 0 THEN CalculateOptimalPosition(Current) ELSE original
       IN  /\ original' = orig
           /\ cand' = NextCandidate(orig, attempt)
    /\ attempt' = attempt
    /\ est' = NoEstimate
    /\ UNCHANGED <<chip_info, component_info, adjusted_positions, pc, sorted_components,
                   idx, placed_by, anchor_used, runs, first_layout, placement_info>>
    /\ UNCHANGED <<nets, component_to_pins, yolo>>

\* a probe generated from the index of the attempt to come
Probe_indexAhead ==
    /\ pc = "search"
    /\ attempt < max_attempts
    /\ HasCollision(Current, cand)
    /\ LET orig == IF attempt = 0 THEN CalculateOptimalPosition(Current) ELSE original
       IN  /\ original' = orig
           /\ cand' = NextCandidate(orig, attempt + 1)
    /\ attempt' = attempt + 1
    /\ est' = NoEstimate
    /\ UNCHANGED <<chip_info, component_info, adjusted_positions, pc, sorted_components,
                   idx, placed_by, anchor_used, runs, first_layout, placement_info>>
    /\ UNCHANGED <<nets, component_to_pins, yolo>>

\* an attempt with a collision: the next candidate is computed from the anchor
Probe ==
    /\ pc = "search"
    /\ attempt < max_attempts
    /\ HasCollision(Current, cand)
    /\ LET orig == IF attempt = 0 THEN CalculateOptimalPosition(Current) ELSE original
       IN  /\ original' = orig
           /\ cand' = NextCandidate(orig, attempt)
    /\ attempt' = attempt + 1
    /\ est' = NoEstimate
    /\ UNCHANGED <<chip_info, component_info, adjusted_positions, pc, sorted_components,
                   idx, placed_by, anchor_used, runs, first_layout, placement_info>>
    /\ UNCHANGED <<nets, component_to_pins, yolo>>

\* the far placement guarded by a collision test
Fallback_checked ==
    /\ pc = "search"
    /\ attempt = max_attempts
    /\ ~ HasCollision(Current, FarPlacement(Current))
    /\ Record(FarPlacement(Current), "fallback")
    /\ est' = NoEstimate
    /\ UNCHANGED <<chip_info, component_info, sorted_components, anchor_used,
                   runs, first_layout, placement_info>>
    /\ UNCHANGED <<nets, component_to_pins, yolo>>

\* the loop is exhausted: far placement, recorded without a collision test
Fallback ==
    /\ pc = "search"
    /\ attempt = max_attempts
    /\ Record(FarPlacement(Current), "fallback")
    /\ est' = NoEstimate
    /\ UNCHANGED <<chip_info, component_info, sorted_components, anchor_used,
                   runs, first_layout, placement_info>>
    /\ UNCHANGED <<nets, component_to_pins, yolo>>

\* detect_and_resolve_collisions, return
Finish ==
    /\ pc = "loop"
    /\ idx > Len(sorted_components)
    /\ pc' = "done"
    /\ runs' = runs + 1
    /\ first_layout' = IF runs = 0 THEN adjusted_positions ELSE first_layout
    /\ est' = NoEstimate
    /\ UNCHANGED <<chip_info, component_info, adjusted_positions, sorted_components,
                   idx, attempt, cand, original, placed_by, anchor_used,
                   placement_info>>
    /\ UNCHANGED <<nets, component_to_pins, yolo>>

\* a direct call of the estimator: before a run, between two placements, on
\* entry to a search (where the resolver itself calls it) or after a run
Estimate ==
    /\ pc = "search" => attempt = 0
    /\ \E c \in Ids : est' = [comp |-> c, value |-> CalculateOptimalPosition(c)]
    /\ UNCHANGED <<chip_info, component_info, adjusted_positions, pc, sorted_components,
                   idx, attempt, cand, original, placed_by, anchor_used, runs,
                   first_layout, placement_info>>
    /\ UNCHANGED <<nets, component_to_pins, yolo>>

\* PositionRecorder.generate_layout_json: the per-component diagnostics
GenerateLayoutJson ==
    /\ pc \in {"idle", "done"}
    /\ placement_info' = CreateComponentsLayoutInfo
    /\ est' = NoEstimate
    /\ UNCHANGED <<chip_info, component_info, adjusted_positions, pc, sorted_components,
                   idx, attempt, cand, original, placed_by, anchor_used, runs,
                   first_layout>>
    /\ UNCHANGED <<nets, component_to_pins, yolo>>

\* the export keeping its annotation list from one call to the next
SaveYoloAnnotations_appending ==
    /\ pc \in {"idle", "done"}
    /\ yolo' = IF yolo = None THEN YoloExport
               ELSE [YoloExport EXCEPT !.annotations = yolo.annotations \o YoloAnnotations,
                                       !.total_objects = Len(yolo.annotations) + Len(YoloAnnotations)]
    /\ est' = NoEstimate
    /\ UNCHANGED <<chip_info, component_info, adjusted_positions, pc, sorted_components,
                   idx, attempt, cand, original, placed_by, anchor_used, runs,
                   first_layout, placement_info, nets, component_to_pins>>

\* PositionRecorder.save_yolo_annotations
SaveYoloAnnotations ==
    /\ pc \in {"idle", "done"}
    /\ yolo' = YoloExport
    /\ est' = NoEstimate
    /\ UNCHANGED <<chip_info, component_info, adjusted_positions, pc, sorted_components,
                   idx, attempt, cand, original, placed_by, anchor_used, runs,
                   first_layout, placement_info, nets, component_to_pins>>

Next ==
    \/ SaveYoloAnnotations
    \/ DetectAndResolveCollisions
    \/ BeginComponent
    \/ Accept
    \/ Probe
    \/ Fallback
    \/ Finish
    \/ Estimate
    \/ GenerateLayoutJson

Spec == Init /\ [][Next]_vars

\* one step of a call of detect_and_resolve_collisions
ResolverStep == BeginComponent \/ Accept \/ Probe \/ Fallback \/ Finish

\* the program is single-threaded and runs a started call to completion
FairSpec == Init /\ [][Next]_vars /\ WF_vars(ResolverStep)

TypeOK ==
    /\ pc \in {"idle", "loop", "search", "done"}
    /\ attempt \in 0..max_attempts
    /\ runs \in 0..MaxRuns
    /\ DOMAIN adjusted_positions \subseteq Ids

(***************************************************************************)
(* json_reader_and_drawer.py : connection analysis                         *)
(***************************************************************************)

\* Bounds of the netlists
MaxNets == 2
MaxConns == 3

ChipPin(p) == [type |-> "chip_pin", ref |-> p]

ComponentPort(c) == [type |-> "component_port", ref |-> c]

\* the connections a net may list: a device pin, a port of the component
Connections == { ChipPin(2), ComponentPort(1) }

\* the netlists of the input file: nets in file order, each a list of connections
Netlists == SeqsUpTo(SeqsUpTo(Connections, MaxConns), MaxNets)

\* the chip_pins / components lists collected from one net, in order
RECURSIVE RefsOf(_, _)
RefsOf(connections, type) ==
    IF connections = << >> THEN << >>
    ELSE IF Head(connections).type = type
         THEN <<Head(connections).ref>> \o RefsOf(Tail(connections), type)
         ELSE RefsOf(Tail(connections), type)

\* for comp_id in components: component_to_pins[comp_id].extend(chip_pins)
RECURSIVE ExtendPins(_, _, _)
ExtendPins(to_pins, components, chip_pins) ==
    IF components = << >> THEN to_pins
    ELSE LET c == Head(components)
             extended == [d \in DOMAIN to_pins \cup {c} |->
                             IF d = c
                             THEN (IF c \in DOMAIN to_pins THEN to_pins[c] ELSE << >>) \o chip_pins
                             ELSE to_pins[d]]
         IN  ExtendPins(extended, Tail(components), chip_pins)

\* _analyze_connections: the loop over the nets, component_to_pins only
RECURSIVE AnalyzeNets(_, _)
AnalyzeNets(netlist, to_pins) ==
    IF netlist = << >> THEN to_pins
    ELSE AnalyzeNets(Tail(netlist),
                     ExtendPins(to_pins, RefsOf(Head(netlist), "component_port"),
                                RefsOf(Head(netlist), "chip_pin")))

\* the reader before its constructor has analysed the nets
ReaderInit ==
    \E netlist \in Netlists :
        /\ nets = netlist
        /\ component_to_pins = Empty
        /\ chip_info = GetChipInfo(ChipDefault)
        /\ component_info = << >>
        /\ adjusted_positions = Empty
        /\ pc = "reading"
        /\ sorted_components = << >>
        /\ idx = 0
        /\ attempt = 0
        /\ cand = None
        /\ original = None
        /\ placed_by = Empty
        /\ anchor_used = Empty
        /\ runs = 0
        /\ first_layout = Empty
        /\ est = NoEstimate
        /\ placement_info = Empty
        /\ yolo = None

\* JsonReaderAndDrawer.__init__: the call of _analyze_connections
AnalyzeConnections ==
    /\ pc = "reading"
    /\ component_to_pins' = AnalyzeNets(nets, Empty)
    /\ pc' = "analysed"
    /\ UNCHANGED <<chip_info, component_info, adjusted_positions, sorted_components,
                   idx, attempt, cand, original, placed_by, anchor_used, runs,
                   first_layout, est, placement_info, nets, yolo>>

\* get_component_info for the one component of the file: its pins are
\* component_to_pins.get(comp_id, [])
ReadComponentInfo ==
    /\ pc = "analysed"
    /\ component_info' =
           GetComponentInfo(<< [type |-> "resistor", layout_size |-> None,
                                pins |-> IF 1 \in DOMAIN component_to_pins
                                         THEN component_to_pins[1] ELSE << >>] >>)
    /\ pc' = "idle"
    /\ UNCHANGED <<chip_info, adjusted_positions, sorted_components,
                   idx, attempt, cand, original, placed_by, anchor_used, runs,
                   first_layout, est, placement_info, nets, component_to_pins, yolo>>

ReaderNext == AnalyzeConnections \/ ReadComponentInfo

ReaderSpec == ReaderInit /\ [][ReaderNext]_vars

(***************************************************************************)
(* Properties                                                              *)
(***************************************************************************)

Placed == DOMAIN adjusted_positions

\* the box recorded for a placed component
BoxOf(c) == adjusted_positions[c].bbox

\* a placed component whose box overlaps the device (margin 2.0) or another
\* placed component (margin 1.0)
Overlapping(c) ==
    \/ CheckBboxCollision(BoxOf(c), chip_info.bbox, 2 * U)
    \/ \E d \in Placed \ {c} : CheckBboxCollision(BoxOf(c), BoxOf(d), U)

\* C1: after detect_and_resolve_collisions completes, no component's final box
\* overlaps the device box with margin 2.0 and no two components' final boxes
\* overlap with margin 1.0.
C1_NoOverlapAfterResolution ==
    pc = "done" => \A c \in Placed : ~ Overlapping(c)

\* C2: a second call of detect_and_resolve_collisions recomputes every
\* position from scratch: the layout after it equals the layout of a fresh
\* detector on the same inputs (the layout the first run produced).
C2_SecondRunFromScratch ==
    (pc = "done" /\ runs >= 2) => adjusted_positions = first_layout

\* the connected pins are non-empty and all on the left side
AllLeft(pins) ==
    /\ pins # << >>
    /\ \A i \in 1..Len(pins) : GetPinPositionOnChip(pins[i])[1] = "left"

\* C3: with a device of positive size and a single component of width 2 and
\* height 1 whose ideal anchor is that of a left-side pin, resolution accepts
\* the ideal position at the first attempt: the final position is the ideal
\* position, achieved-ideal is true and the distance from ideal is 0.0.
C3_LeftPinAcceptedAtIdeal ==
    ( /\ pc = "done"
      /\ Len(component_info) = 1
      /\ component_info[1].width = 2 * U
      /\ component_info[1].height = U
      /\ AllLeft(component_info[1].connected_pins)
      /\ chip_info.bbox.width > 0
      /\ chip_info.bbox.height > 0 )
    => /\ adjusted_positions[1].position[1] = 0 - 3 * U
       /\ adjusted_positions[1].position = CalculateOptimalPosition(1)
       /\ placed_by[1] = "accept"
       /\ CheckIfOptimalPosition(1, adjusted_positions[1])
       /\ CalculateDistanceFromOptimal(1, adjusted_positions[1]) = 0

\* C4: for two components both connected only to the same single pin, after
\* resolution the final box of the second-processed component does not
\* overlap the final box of the first-processed one with margin 1.0.
C4_SamePinPairDisjoint ==
    ( /\ pc = "done"
      /\ Len(component_info) = 2
      /\ Len(component_info[1].connected_pins) = 1
      /\ component_info[2].connected_pins = component_info[1].connected_pins )
    => ~ CheckBboxCollision(BoxOf(sorted_components[2]), BoxOf(sorted_components[1]), U)

\* some component or the device has a non-positive width or height
InvalidGeometry ==
    \/ chip_info.bbox.width <= 0
    \/ chip_info.bbox.height <= 0
    \/ \E c \in Ids : component_info[c].width <= 0 \/ component_info[c].height <= 0

\* C5: with a non-positive width or height resolution fails fast: no
\* component position is recorded for that run.
C5_InvalidGeometryFailsFast ==
    InvalidGeometry => adjusted_positions = Empty

\* position of a component in the processing order of the current run
OrderOf(c) == CHOOSE r \in 1..Len(sorted_components) : sorted_components[r] = c

\* C6: a component whose 50 tested candidates all collided is always given
\* the far placement, with no collision test in the way, its position is
\* recorded, and the run goes on with the remaining components; no state of
\* the resolver is an error state.
C6_FallbackUnconditional ==
    /\ (pc = "search" /\ attempt = max_attempts) => ENABLED Fallback
    /\ (pc = "loop" /\ idx <= Len(sorted_components)) => ENABLED BeginComponent
    /\ \A c \in DOMAIN placed_by :
          /\ c \in Placed
          /\ placed_by[c] = "fallback" => adjusted_positions[c].position = FarPlacement(c)
    /\ pc \in {"idle", "loop", "search", "done"}

\* a fallback placement that overlaps, followed by the placement of a later component
C6_Witness ==
    \E c \in DOMAIN placed_by, d \in DOMAIN placed_by :
        /\ placed_by[c] = "fallback"
        /\ Overlapping(c)
        /\ OrderOf(d) > OrderOf(c)

\* C7: every component placed by the far-placement fallback lies at a
\* distance of at least 0.5 from its ideal position, so its achieved-ideal
\* flag is false.
C7_FallbackNeverIdeal ==
    \A c \in DOMAIN placed_by :
        placed_by[c] = "fallback" =>
            /\ 4 * Dist2(adjusted_positions[c].position, anchor_used[c]) >= U * U
            /\ ~ CheckIfOptimalPosition(c, adjusted_positions[c])
            /\ CalculateDistanceFromOptimal(c, adjusted_positions[c]) >= 50

\* a finished run in which a component was placed by the fallback
C7_Witness ==
    /\ pc = "done"
    /\ \E c \in DOMAIN placed_by : placed_by[c] = "fallback"

\* C8: for a component with no connected pins the ideal position is exactly
\* (2.0, 2.0): as returned by a direct call, as used for the search anchor
\* and as used by the diagnostics.
C8_EmptyPinsDefault ==
    \A c \in Ids :
        component_info[c].connected_pins = << >> =>
            /\ est.comp = c => est.value = <<2 * U, 2 * U>>
            /\ c \in DOMAIN anchor_used => anchor_used[c] = <<2 * U, 2 * U>>
            /\ c \in DOMAIN placement_info =>
                   placement_info[c].optimal_pos = <<2 * U, 2 * U>>

\* the estimate of a pin-less component, asked for after another component was placed
C8_Witness ==
    /\ est.comp \in Ids
    /\ component_info[est.comp].connected_pins = << >>
    /\ Placed \ {est.comp} # {}
    /\ est.comp \in DOMAIN anchor_used

\* the anchor point of one pin as the specification tabulates it
C9_Anchor(pin) ==
    LET side == GetPinPositionOnChip(pin)[1]
        offset == GetPinPositionOnChip(pin)[2]
    IN  IF pin \notin 1..9 THEN <<3 * U, 0>>
        ELSE IF side = "left" THEN <<0 - 3 * U, (3 * offset) \div 2>>
        ELSE IF side = "right" THEN <<3 * U, (3 * offset) \div 2>>
        ELSE IF side = "top" THEN <<(3 * offset) \div 2, (5 * U) \div 2>>
        ELSE <<(3 * offset) \div 2, 0 - ((5 * U) \div 2)>>

RECURSIVE C9_Sum(_, _)
C9_Sum(pins, k) == IF pins = << >> THEN 0 ELSE C9_Anchor(Head(pins))[k] + C9_Sum(Tail(pins), k)

\* value is the arithmetic mean of the anchors of the pins
C9_IsMean(value, pins) ==
    /\ value[1] * Len(pins) = C9_Sum(pins, 1)
    /\ value[2] * Len(pins) = C9_Sum(pins, 2)

\* C9: for a component with connected pins the ideal position is the
\* arithmetic mean of the per-pin anchors: left (-3, 1.5 o), right (3, 1.5 o),
\* top (1.5 o, 2.5), bottom (1.5 o, -2.5), a pin absent from the table
\* counting as (3.0, 0.0).
C9_MeanOfAnchors ==
    /\ (est.comp \in Ids /\ component_info[est.comp].connected_pins # << >>) =>
           C9_IsMean(est.value, component_info[est.comp].connected_pins)
    /\ \A c \in DOMAIN anchor_used :
           component_info[c].connected_pins # << >> =>
               C9_IsMean(anchor_used[c], component_info[c].connected_pins)

\* the estimate of a component with several pins, one of them absent from the table
C9_Witness ==
    /\ est.comp \in Ids
    /\ Len(component_info[est.comp].connected_pins) >= 2
    /\ \E i \in 1..Len(component_info[est.comp].connected_pins) :
           component_info[est.comp].connected_pins[i] \notin 1..9
    /\ \E i \in 1..Len(component_info[est.comp].connected_pins) :
           GetPinPositionOnChip(component_info[est.comp].connected_pins[i])[1] = "bot"

\* every value of the estimator seen so far for one component is the same:
\* direct call, search anchor, diagnostics
C10_Agree ==
    /\ est.comp \in DOMAIN anchor_used => est.value = anchor_used[est.comp]
    /\ \A c \in DOMAIN placement_info :
           /\ placement_info[c].optimal_pos = anchor_used[c]
           /\ est.comp = c => est.value = placement_info[c].optimal_pos

\* C10: the estimator is pure: its value for a component never changes,
\* before, during or after resolution; a call changes no component data, no
\* recorded position and not the device; and the search anchor equals the
\* value used for the distance-to-ideal diagnostic.
C10_EstimatorPure ==
    [][ /\ C10_Agree'
        /\ \A c \in Ids : CalculateOptimalPosition(c)' = CalculateOptimalPosition(c)
        /\ est'.comp # 0 =>
               UNCHANGED <<chip_info, component_info, adjusted_positions, placement_info>>
      ]_vars

\* the estimator called for a component that the resolver moved away from
\* its ideal position and that the diagnostics have covered
C10_Witness ==
    /\ est.comp \in Placed
    /\ est.comp \in DOMAIN placement_info
    /\ adjusted_positions[est.comp].position # est.value
    /\ runs >= 1

\* the box of a component centred at pos: x -/+ w/2, y -/+ h/2
BoxAt(c, pos) ==
    [x_min |-> pos[1] - (component_info[c].width \div 2),
     x_max |-> pos[1] + (component_info[c].width \div 2),
     y_min |-> pos[2] - (component_info[c].height \div 2),
     y_max |-> pos[2] + (component_info[c].height \div 2)]

\* two boxes, the first widened by m on every side, have a point in common
Touch(a, b, m) ==
    /\ a.x_min - m <= b.x_max
    /\ b.x_min <= a.x_max + m
    /\ a.y_min - m <= b.y_max
    /\ b.y_min <= a.y_max + m

\* component c centred at pos is clear of the device (margin 2.0) and of the
\* components of placed (a function from component to position; margin 1.0)
ClearOf(c, pos, placed) ==
    /\ ~ Touch(chip_info.bbox, BoxAt(c, pos), 2 * U)
    /\ \A d \in DOMAIN placed \ {c} : ~ Touch(BoxAt(d, placed[d]), BoxAt(c, pos), U)

\* the k-th tested candidate of a component: the estimate, then the probes
Candidate(c, k) ==
    IF k = 0 THEN CalculateOptimalPosition(c)
    ELSE NextCandidate(CalculateOptimalPosition(c), k - 1)

\* indices of the tested candidates that are clear
ClearIndices(c, placed) ==
    { k \in 0..(max_attempts - 1) : ClearOf(c, Candidate(c, k), placed) }

\* the least element of a non-empty set of naturals
Least(S) == CHOOSE k \in S : \A j \in S : k <= j

\* where a component ends up, given the positions of those placed before it
Settle(c, placed) ==
    IF ClearIndices(c, placed) = {} THEN FarPlacement(c)
    ELSE Candidate(c, Least(ClearIndices(c, placed)))

\* the positions a run started with no recorded position computes, as a
\* function of the device and the components alone: the components from rank
\* r on are settled one after the other
RECURSIVE ResolveFrom(_, _)
ResolveFrom(r, placed) ==
    IF r > Len(component_info) THEN placed
    ELSE LET c == SortedComponents[r]
         IN  ResolveFrom(r + 1, (c :> Settle(c, placed)) @@ placed)

\* C11: resolution is deterministic: the final positions of a fresh run are a
\* function of the device, the components and their input order alone, so
\* two fresh runs on the same inputs end with identical positions.
C11_Deterministic ==
    (pc = "done" /\ runs = 1) =>
        /\ DOMAIN adjusted_positions = Ids
        /\ \A c \in Ids : adjusted_positions[c].position = ResolveFrom(1, Empty)[c]

\* a finished fresh run of two components with equally many pins, one of
\* them moved away from its estimate
C11_Witness ==
    /\ pc = "done"
    /\ runs = 1
    /\ \E c \in Ids, d \in Ids :
          /\ c # d
          /\ Len(component_info[c].connected_pins) = Len(component_info[d].connected_pins)
          /\ component_info[c] # component_info[d]
          /\ adjusted_positions[c].position # CalculateOptimalPosition(c)

\* C12: resolution terminates: a component tests at most 50 candidates, each
\* against the device and the recorded components (a subset of the input
\* set), after the 50th collision it is placed by the fallback, and every
\* started run reaches its end.
C12_Terminates ==
    /\ [](attempt <= max_attempts /\ DOMAIN adjusted_positions \subseteq Ids)
    /\ [][ (pc = "search" /\ pc' = "search") => attempt' = attempt + 1 ]_<<pc, attempt, idx>>
    /\ [][ (pc = "search" /\ pc' # "search") =>
               (idx' = idx + 1 /\ Current \in DOMAIN placed_by') ]_<<pc, attempt, idx>>
    /\ (pc \in {"loop", "search"}) ~> (pc = "done")

\* a finished run in which one component used up its 50 attempts and
\* another was accepted after a probe
C12_Witness ==
    /\ pc = "done"
    /\ \E c \in Ids, d \in Ids :
          /\ placed_by[c] = "fallback"
          /\ placed_by[d] = "accept"
          /\ adjusted_positions[d].position # CalculateOptimalPosition(d)

\* C13: within one run every component is placed exactly once: a position
\* is written only for a component not yet written in this run, the write
\* leaves every other record as it was, no other step changes a record, and
\* at the end of the run every component has its record.
C13_PlacedOnce ==
    /\ [][ IF pc = "search" /\ pc' = "loop"
           THEN /\ Current \notin DOMAIN placed_by
                /\ DOMAIN placed_by' = DOMAIN placed_by \cup {Current}
                /\ DOMAIN adjusted_positions' = DOMAIN adjusted_positions \cup {Current}
                /\ \A d \in DOMAIN adjusted_positions \ {Current} :
                       adjusted_positions'[d] = adjusted_positions[d]
           ELSE /\ adjusted_positions' = adjusted_positions
                /\ \/ placed_by' = placed_by
                   \/ placed_by' = Empty /\ pc \in {"idle", "done"}
         ]_vars
    /\ [](pc = "done" => (DOMAIN adjusted_positions = Ids /\ DOMAIN placed_by = Ids))

\* the end of a second run over several components, the last of them placed
\* where it collides with an earlier one
C13_Witness ==
    /\ pc = "done"
    /\ runs = 2
    /\ Len(component_info) >= 2
    /\ Overlapping(sorted_components[Len(sorted_components)])

\* no pin number occurs twice in the list
NoDuplicates(pins) ==
    \A i \in DOMAIN pins, j \in DOMAIN pins : pins[i] = pins[j] => i = j

\* C14: the connected pins of a component form a set: whatever the netlist,
\* also when a component has two ports on one net or reaches one device pin
\* through two nets, connected_pins holds each pin number at most once.
C14_ConnectedPinsAreSet ==
    /\ \A c \in DOMAIN component_to_pins : NoDuplicates(component_to_pins[c])
    /\ \A c \in Ids : NoDuplicates(component_info[c].connected_pins)

\* the fraction is a number of [0,1]
InUnit(fraction) == 0 <= fraction[1] /\ fraction[1] <= fraction[2] /\ fraction[2] > 0

\* the normalised box of the device
ChipNorm ==
    ConvertToYoloFormat(chip_info.position[1], chip_info.position[2],
                        chip_info.bbox.width, chip_info.bbox.height, CalculateCanvasSize)

\* the normalised box of a placed component
CompNorm(c) ==
    ConvertToYoloFormat(adjusted_positions[c].position[1], adjusted_positions[c].position[2],
                        adjusted_positions[c].width, adjusted_positions[c].height,
                        CalculateCanvasSize)

\* the normalised boxes of the device and of every placed component
AllNorms == {ChipNorm} \cup { CompNorm(c) : c \in Placed }

Million == 10 * 10 * 10 * 10 * 10 * 10

\* C15: every exported annotation record, of the device and of every
\* component, has x_center, y_center, width and height inside [0,1]: as
\* computed (after the clamping) and as written to the file.
C15_AnnotationsInUnitRange ==
    yolo # None =>
        /\ \A n \in AllNorms :
               InUnit(n.x_center) /\ InUnit(n.y_center) /\ InUnit(n.width) /\ InUnit(n.height)
        /\ \A i \in DOMAIN yolo.annotations :
               LET a == yolo.annotations[i]
               IN  /\ 0 <= a.x_center /\ a.x_center <= Million
                   /\ 0 <= a.y_center /\ a.y_center <= Million
                   /\ 0 <= a.width /\ a.width <= Million
                   /\ 0 <= a.height /\ a.height <= Million

\* an export in which the clamping changed a value: a component with a
\* negative width is written with width 0
C15_Witness ==
    /\ yolo # None
    /\ pc = "done"
    /\ \E c \in Placed :
          /\ adjusted_positions[c].width < 0
          /\ yolo.annotations[c + 1].width = 0

\* the box <<x, y, w, h>> (centre and size) lies fully inside the canvas frame
InsideFrame(box, canvas) ==
    /\ box[3] >= 0
    /\ box[4] >= 0
    /\ 2 * canvas.canvas_origin_x <= 2 * box[1] - box[3]
    /\ 2 * box[1] + box[3] <= 2 * (canvas.canvas_origin_x + canvas.canvas_width)
    /\ 2 * box[2] + box[4] <= 2 * canvas.canvas_origin_y
    /\ 2 * (canvas.canvas_origin_y - canvas.canvas_height) <= 2 * box[2] - box[4]

\* the boxes of the device and of the placed components, the frame itself
\* and the empty boxes at two opposite corners of the frame
TestBoxes(canvas) ==
    { <<chip_info.position[1], chip_info.position[2],
        chip_info.bbox.width, chip_info.bbox.height>> } \cup
    { <<adjusted_positions[c].position[1], adjusted_positions[c].position[2],
        adjusted_positions[c].width, adjusted_positions[c].height>> : c \in Placed } \cup
    { <<canvas.canvas_origin_x + canvas.canvas_width \div 2,
        canvas.canvas_origin_y - canvas.canvas_height \div 2,
        2 * (canvas.canvas_width \div 2), 2 * (canvas.canvas_height \div 2)>>,
      <<canvas.canvas_origin_x, canvas.canvas_origin_y, 0, 0>>,
      <<canvas.canvas_origin_x + canvas.canvas_width,
        canvas.canvas_origin_y - canvas.canvas_height, 0, 0>> }

\* x = origin_x + cx * canvas_w, y = origin_y - cy * canvas_h, w = w_norm *
\* canvas_w, h = h_norm * canvas_h, each multiplied by the denominator
Recovers(box, norm, canvas) ==
    /\ box[1] * norm.x_center[2] =
           canvas.canvas_origin_x * norm.x_center[2] + norm.x_center[1] * canvas.canvas_width
    /\ box[2] * norm.y_center[2] =
           canvas.canvas_origin_y * norm.y_center[2] - norm.y_center[1] * canvas.canvas_height
    /\ box[3] * norm.width[2] = norm.width[1] * canvas.canvas_width
    /\ box[4] * norm.height[2] = norm.height[1] * canvas.canvas_height

\* C16: normalisation is invertible on boxes inside the canvas frame: for a
\* box lying fully inside the frame the denormalising formulas give back
\* the box, so no clamping took place.
C16_RoundTrip ==
    yolo # None =>
        \A box \in TestBoxes(CalculateCanvasSize) :
            InsideFrame(box, CalculateCanvasSize) =>
                Recovers(box,
                         ConvertToYoloFormat(box[1], box[2], box[3], box[4], CalculateCanvasSize),
                         CalculateCanvasSize)

\* an export of a finished layout of several components, off-centre, all
\* inside the frame
C16_Witness ==
    /\ yolo # None
    /\ pc = "done"
    /\ Cardinality(Placed) >= 2
    /\ \A box \in TestBoxes(CalculateCanvasSize) : InsideFrame(box, CalculateCanvasSize)
    /\ \E c \in Placed : adjusted_positions[c].position[2] # 0

\* C17: export is idempotent and read-only: with no resolve in between, a
\* repeated export yields the same canvas frame, class mapping and
\* annotation records as the one before, and an export leaves every
\* component position and the device record unchanged.
C17_ExportIdempotent ==
    /\ [][ yolo' # None =>
               /\ yolo # None => yolo' = yolo
               /\ yolo' # yolo =>
                      UNCHANGED <<chip_info, component_info, adjusted_positions>>
         ]_vars
    /\ [](yolo # None =>
              /\ yolo.canvas_size = <<CalculateCanvasSize.canvas_width,
                                      CalculateCanvasSize.canvas_height>>
              /\ yolo.canvas_origin = <<CalculateCanvasSize.canvas_origin_x,
                                        CalculateCanvasSize.canvas_origin_y>>
              /\ yolo.class_mapping = GetComponentClassMapping[1]
              /\ yolo.annotations = YoloAnnotations)

\* a resolved layout of several components that has been exported, with the
\* diagnostics produced as well
C17_Witness ==
    /\ yolo # None
    /\ pc = "done"
    /\ runs = 2
    /\ placement_info # Empty
    /\ Cardinality(Placed) >= 2
    /\ yolo.total_objects = Cardinality(Placed) + 1

\* the code points of a name with its capital letters turned to small ones
LowerCase(points) ==
    [i \in DOMAIN points |-> IF points[i] \in 65..90 THEN points[i] + 32 ELSE points[i]]

\* a comes before b in alphabetical order
AlphabeticallyBefore(a, b) == SeqLess(LowerCase(CodePoints(a)), LowerCase(CodePoints(b)))

\* the distinct type names of the exported entities, the device's included
EntityTypeNames == { adjusted_positions[c].type : c \in Placed } \cup {"chip"}

\* index of a type name in the alphabetically sorted list of the names
AlphabeticalIndex(t) ==
    Cardinality({ u \in EntityTypeNames : AlphabeticallyBefore(u, t) })

\* the annotation records written for component c
RecordsOf(c) == { i \in DOMAIN yolo.annotations : yolo.annotations[i].tag = <<c, adjusted_positions[c].type>> }

\* C18: the export holds exactly one record per entity (the device and every
\* placed component); the class_id of a record is the index of the entity's
\* type name in the alphabetically sorted list of the distinct type names,
\* which contains 'chip'; equal class_ids mean equal type names.
C18_ClassIdsAlphabetical ==
    yolo # None =>
        /\ Len(yolo.annotations) = Cardinality(Placed) + 1
        /\ yolo.annotations[1].tag = << >>
        /\ yolo.annotations[1].class_id = AlphabeticalIndex("chip")
        /\ \A c \in Placed :
               /\ Cardinality(RecordsOf(c)) = 1
               /\ \A i \in RecordsOf(c) :
                      yolo.annotations[i].class_id = AlphabeticalIndex(adjusted_positions[c].type)
        /\ \E i \in DOMAIN yolo.class_names : yolo.class_names[i] = "chip"
        /\ \A i \in DOMAIN yolo.class_names :
               AlphabeticalIndex(yolo.class_names[i]) = i - 1
        /\ \A c \in Placed, d \in Placed :
               yolo.class_mapping[adjusted_positions[c].type] =
                   yolo.class_mapping[adjusted_positions[d].type]
               => adjusted_positions[c].type = adjusted_positions[d].type

\* the run in progress or just finished is the first one of the detector
FreshRun == (pc \in {"loop", "search"} /\ runs = 0) \/ (pc = "done" /\ runs = 1)

\* the positions recorded for the components processed before c
EarlierPositions(c) ==
    [d \in { e \in DOMAIN placed_by : OrderOf(e) < OrderOf(c) } |->
        adjusted_positions[d].position]

\* C19: in a fresh run a component not placed by the fallback ends at the
\* first candidate of its sequence (ideal position, then the probes in
\* attempt order) that is clear of the margin-expanded device box and, with
\* margin 1.0, of every component placed earlier in the processing order,
\* however far from the ideal position that candidate is.
C19_FirstClearCandidate ==
    FreshRun =>
        \A c \in DOMAIN placed_by :
            placed_by[c] = "accept" =>
                /\ ClearIndices(c, EarlierPositions(c)) # {}
                /\ adjusted_positions[c].position =
                       Candidate(c, Least(ClearIndices(c, EarlierPositions(c))))

\* the end of a fresh run in which a component was accepted on the widening
\* spiral, more than two units from its ideal position, after an earlier
\* component was placed
C19_Witness ==
    /\ pc = "done"
    /\ runs = 1
    /\ \E c \in Ids :
          /\ placed_by[c] = "accept"
          /\ OrderOf(c) > 1
          /\ Least(ClearIndices(c, EarlierPositions(c))) > 8
          /\ Dist2(adjusted_positions[c].position, CalculateOptimalPosition(c)) > 4 * U * U

\* a(k): 45 k degrees for k in 0..7, (30 k) mod 360 degrees from k = 8 on
C20_Angle(k) == IF k \in 0..7 THEN 45 * k ELSE (30 * k) % 360

\* 2 r(k): r(k) = 1.0 for k in 0..7 and 1.0 * (1 + 0.5 (k - 8)) from k = 8 on
C20_TwiceRadius(k) == IF k \in 0..7 THEN 2 ELSE 2 + (k - 8)

\* anchor + r(k) (cos a(k), sin a(k)), to the nearest model unit
C20_Probe(anchor, k) ==
    <<anchor[1] + (C20_TwiceRadius(k) * Cos10k(C20_Angle(k)) * (U \div 2) + 5000) \div 10000,
      anchor[2] + (C20_TwiceRadius(k) * Sin10k(C20_Angle(k)) * (U \div 2) + 5000) \div 10000>>

\* the distance between p and q is r(k), to within one model unit per coordinate
C20_AtRadius(p, q, k) ==
    /\ (C20_TwiceRadius(k) * U - 4) * (C20_TwiceRadius(k) * U - 4) <= 4 * Dist2(p, q)
    /\ 4 * Dist2(p, q) <= (C20_TwiceRadius(k) * U + 4) * (C20_TwiceRadius(k) * U + 4)

\* C20: every probe is an offset from the component's fixed ideal anchor,
\* never from the previous failed candidate: the candidate generated after
\* the collision at attempt index k is anchor + r(k) (cos a(k), sin a(k)),
\* at distance r(k) from the anchor.
C20_ProbesFromAnchor ==
    (pc = "search" /\ attempt >= 1) =>
        /\ original = anchor_used[Current]
        /\ original = CalculateOptimalPosition(Current)
        /\ cand = C20_Probe(anchor_used[Current], attempt - 1)
        /\ C20_AtRadius(cand, anchor_used[Current], attempt - 1)

\* a search on the widening spiral, past a full turn
C20_Witness ==
    /\ pc = "search"
    /\ attempt > 8 + 12
    /\ attempt < max_attempts
    /\ cand # anchor_used[Current]

\* number of connected pins of a component
PinCount(c) == Len(component_info[c].connected_pins)

\* C21: components are placed in descending order of their number of
\* connected pins, equal counts in input order: whenever one component has
\* its position of the current run and another is still waiting, the placed
\* one has at least as many pins, and with equally many it comes earlier in
\* the input; a step places no component other than the one so determined.
C21_PlacedByPinCount ==
    /\ [](pc \in {"loop", "search", "done"} =>
             \A c \in DOMAIN placed_by, d \in Ids \ DOMAIN placed_by :
                 \/ PinCount(c) > PinCount(d)
                 \/ PinCount(c) = PinCount(d) /\ c < d)
    /\ [][ \A c \in DOMAIN placed_by' \ DOMAIN placed_by :
               \A d \in Ids \ DOMAIN placed_by' :
                   PinCount(c) > PinCount(d) \/ (PinCount(c) = PinCount(d) /\ c < d) ]_vars

\* the component given second has more pins and is placed while the one
\* given first still waits
C21_Witness ==
    /\ pc \in {"loop", "search"}
    /\ \E c \in DOMAIN placed_by, d \in Ids \ DOMAIN placed_by :
          c > d /\ PinCount(c) > PinCount(d)

\* the far position the table gives for a list of connected pins: a function
\* of the side and offset of the first pin alone
C22_Far(pins) ==
    IF pins = << >> THEN <<10 * U, 6 * U>>
    ELSE LET side == GetPinPositionOnChip(pins[1])[1]
             offset == GetPinPositionOnChip(pins[1])[2]
         IN  IF side = "left" THEN <<0 - 10 * U, 3 * offset>>
             ELSE IF side = "right" THEN <<10 * U, 3 * offset>>
             ELSE IF side = "top" THEN <<3 * offset, 8 * U>>
             ELSE <<3 * offset, 0 - 8 * U>>

\* C22: when all 50 tested candidates of a component collide, its final
\* position is given by the side and offset of its first connected pin
\* alone: left (-10, 3 o), right (10, 3 o), top (3 o, 8), bottom (3 o, -8),
\* no pins (10, 6); neither the other pins nor the other entities matter.
C22_FarPlacementByFirstPin ==
    \A c \in DOMAIN placed_by :
        /\ placed_by[c] = "fallback" =>
               adjusted_positions[c].position = C22_Far(component_info[c].connected_pins)
        /\ (FreshRun /\ ClearIndices(c, EarlierPositions(c)) = {}) =>
               /\ placed_by[c] = "fallback"
               /\ adjusted_positions[c].position = C22_Far(component_info[c].connected_pins)

\* a component with two pins on different sides of the device, placed by
\* the fallback
C22_Witness ==
    \E c \in DOMAIN placed_by :
        /\ placed_by[c] = "fallback"
        /\ Len(component_info[c].connected_pins) >= 2
        /\ GetPinPositionOnChip(component_info[c].connected_pins[1])[1] #
               GetPinPositionOnChip(component_info[c].connected_pins[2])[1]
        /\ ClearIndices(c, EarlierPositions(c)) = {}

\* the boxes at hand in a state: the device box, the device box widened by
\* 2.0, the recorded boxes and the box of the candidate under test
C23_Boxes ==
    { chip_info.bbox,
      [x_min |-> chip_info.bbox.x_min - 2 * U, x_max |-> chip_info.bbox.x_max + 2 * U,
       y_min |-> chip_info.bbox.y_min - 2 * U, y_max |-> chip_info.bbox.y_max + 2 * U] }
    \cup { BoxOf(c) : c \in Placed }
    \cup (IF pc = "search" THEN { BoxAt(Current, cand) } ELSE {})

\* the margins the program passes to the predicate
C23_Margins == {0, U, 2 * U}

\* the free space between two boxes: the larger of the gaps along x and y
\* (negative when the boxes intersect)
C23_Gap(A, B) ==
    LET gap_x == IF B.x_min - A.x_max >= A.x_min - B.x_max
                 THEN B.x_min - A.x_max ELSE A.x_min - B.x_max
        gap_y == IF B.y_min - A.y_max >= A.y_min - B.y_max
                 THEN B.y_min - A.y_max ELSE A.y_min - B.y_max
    IN  IF gap_x >= gap_y THEN gap_x ELSE gap_y

\* C23: the overlap predicate on boxes A, B with margin m is true exactly
\* when NOT(A.x_max+m < B.x_min OR B.x_max+m < A.x_min OR A.y_max+m < B.y_min
\* OR B.y_max+m < A.y_min); the inequalities are strict, so two boxes whose
\* gap equals the margin count as overlapping; exchanging A and B does not
\* change the answer.
C23_OverlapPredicate ==
    \A A \in C23_Boxes, B \in C23_Boxes :
        LET gap == C23_Gap(A, B)
        IN  \A m \in C23_Margins :
                /\ CheckBboxCollision(A, B, m) <=>
                       ~ (\/ A.x_max + m < B.x_min
                          \/ B.x_max + m < A.x_min
                          \/ A.y_max + m < B.y_min
                          \/ B.y_max + m < A.y_min)
                /\ gap = m => CheckBboxCollision(A, B, m)
                /\ gap > m => ~ CheckBboxCollision(A, B, m)
                /\ CheckBboxCollision(A, B, m) <=> CheckBboxCollision(B, A, m)

\* a candidate under test whose box is exactly 1.0 away from a recorded box,
\* or exactly 2.0 away from the device box
C23_Witness ==
    /\ pc = "search"
    /\ \/ C23_Gap(BoxAt(Current, cand), chip_info.bbox) = 2 * U
       \/ \E d \in Placed \ {Current} : C23_Gap(BoxAt(Current, cand), BoxOf(d)) = U

\* the component boxes at hand in a state: the recorded ones and the box of
\* the candidate under test
C24_ComponentBoxes ==
    { BoxOf(c) : c \in Placed } \cup (IF pc = "search" THEN { BoxAt(Current, cand) } ELSE {})

\* the candidate under test overlaps the device box with margin 2.0 or the
\* box of a recorded component other than itself with margin 1.0
C24_Collides ==
    \/ CheckBboxCollision(BoxAt(Current, cand), chip_info.bbox, 2 * U)
    \/ \E d \in Placed \ {Current} :
           CheckBboxCollision(BoxAt(Current, cand),
                              BoxAt(d, adjusted_positions[d].position), U)

C25_EntityBoxes == { chip_info.bbox } \cup { BoxOf(c) : c \in Placed }

\* the x and the y coordinates of the edges of the entity boxes
C25_EdgesX == { b.x_min : b \in C25_EntityBoxes } \cup { b.x_max : b \in C25_EntityBoxes }

C25_EdgesY == { b.y_min : b \in C25_EntityBoxes } \cup { b.y_max : b \in C25_EntityBoxes }

\* box is the union (the smallest enclosing box) of the entity boxes
C25_IsUnion(box) ==
    /\ \A x \in C25_EdgesX : box.x_min <= x /\ x <= box.x_max
    /\ \A y \in C25_EdgesY : box.y_min <= y /\ y <= box.y_max
    /\ box.x_min \in C25_EdgesX /\ box.x_max \in C25_EdgesX
    /\ box.y_min \in C25_EdgesY /\ box.y_max \in C25_EdgesY

\* the exported frame with 2.0 taken off on every side
C25_FrameInset ==
    [x_min |-> yolo.canvas_origin[1] + 2 * U,
     x_max |-> yolo.canvas_origin[1] + yolo.canvas_size[1] - 2 * U,
     y_min |-> yolo.canvas_origin[2] - yolo.canvas_size[2] + 2 * U,
     y_max |-> yolo.canvas_origin[2] - 2 * U]

\* C25: the canvas frame is derived from the union of the device's box and
\* every component's final box: origin = (x_min - 2.0, y_max + 2.0), width
\* and height = the union's spans + 4.0; the union contains every entity box
\* and the frame contains the union with 2.0 to spare on every side.
C25_CanvasFromUnion ==
    yolo # None =>
        /\ C25_IsUnion(C25_FrameInset)
        /\ \A b \in C25_EntityBoxes :
               /\ yolo.canvas_origin[1] + 2 * U <= Min({b.x_min, b.x_max})
               /\ Max({b.x_min, b.x_max}) + 2 * U <= yolo.canvas_origin[1] + yolo.canvas_size[1]
               /\ Max({b.y_min, b.y_max}) + 2 * U <= yolo.canvas_origin[2]
               /\ yolo.canvas_origin[2] - yolo.canvas_size[2] + 2 * U <= Min({b.y_min, b.y_max})

\* an exported layout of several components in which the device alone
\* reaches one side of the union and a component alone reaches another
C25_Witness ==
    /\ yolo # None
    /\ pc = "done"
    /\ Cardinality(Placed) >= 2
    /\ \/ \A c \in Placed : BoxOf(c).y_min > chip_info.bbox.y_min
       \/ \A c \in Placed : BoxOf(c).x_max < chip_info.bbox.x_max
    /\ \E c \in Placed : BoxOf(c).x_min < chip_info.bbox.x_min

\* C26: in a fresh run, at the moment the search loop accepts a component
\* its box overlaps neither the device box with margin 2.0 nor, with margin
\* 1.0, the box of any component placed before it; hence while no component
\* of a fresh run has used the fallback, and at its end, all distinct
\* entity pairs are free of overlap.
C26_AcceptedClear ==
    /\ [][ (runs = 0 /\ pc = "search" /\ pc' = "loop" /\ placed_by'[Current] = "accept") =>
               /\ ~ CheckBboxCollision(adjusted_positions'[Current].bbox, chip_info.bbox, 2 * U)
               /\ \A d \in DOMAIN placed_by :
                      /\ d # Current
                      /\ ~ CheckBboxCollision(adjusted_positions'[Current].bbox, BoxOf(d), U)
                      /\ ~ CheckBboxCollision(BoxOf(d), adjusted_positions'[Current].bbox, U)
         ]_vars
    /\ []((FreshRun /\ \A c \in DOMAIN placed_by : placed_by[c] = "accept") =>
              \A c \in Placed : ~ Overlapping(c))

\* the end of a fresh run of several components, none placed by the
\* fallback, one of them kept off an earlier candidate by a component
\* placed before it
C26_Witness ==
    /\ pc = "done"
    /\ runs = 1
    /\ Cardinality(Placed) >= 2
    /\ \A c \in Ids : placed_by[c] = "accept"
    /\ \E c \in Ids :
          Least(ClearIndices(c, Empty)) < Least(ClearIndices(c, EarlierPositions(c)))

\* the device is at least 2 wide and 1 high
C27_DeviceNotSmall == chip_info.bbox.width >= 2 * U /\ chip_info.bbox.height >= U

\* the components of positive width and height
C27_PositiveSize == { c \in Ids : component_info[c].width > 0 /\ component_info[c].height > 0 }

\* C27: with a device at least 2 wide and 1 high (every pin-count-derived
\* default size is) the ideal position of every component of positive size,
\* whatever its connected pins, collides with the margin-expanded device
\* box: no such component is accepted at attempt 0, none has achieved-ideal
\* true, and the achieved-ideal rate is 0.
C27_IdealAlwaysCollides ==
    /\ \A n \in 1..40 :
           /\ GetChipInfo([layout_size |-> None, pin_count |-> n]).bbox.width >= 2 * U
           /\ GetChipInfo([layout_size |-> None, pin_count |-> n]).bbox.height >= U
    /\ [](C27_DeviceNotSmall =>
             /\ \A c \in C27_PositiveSize :
                    /\ CheckCollisionWithChip(BoxAt(c, CalculateOptimalPosition(c)))
                    /\ c \in Placed =>
                           /\ adjusted_positions[c].position # CalculateOptimalPosition(c)
                           /\ ~ CheckIfOptimalPosition(c, adjusted_positions[c])
                    /\ c \in DOMAIN placement_info =>
                           ~ placement_info[c].optimal_position_achieved
             /\ (placement_info # Empty /\ C27_PositiveSize = Ids) => OptimalPositionRate = 0)
    /\ [][ (C27_DeviceNotSmall /\ pc = "search" /\ pc' = "loop" /\ Current \in C27_PositiveSize)
               => attempt >= 1 ]_vars

\* a finished layout around the device of 2 by 1, with the diagnostics
\* produced, of a component with a connected pin that was accepted on a probe
C27_Witness ==
    /\ chip_info.bbox.width = 2 * U
    /\ chip_info.bbox.height = U
    /\ pc = "done"
    /\ C27_PositiveSize = Ids
    /\ DOMAIN placement_info = Ids
    /\ \E c \in Ids : placed_by[c] = "accept" /\ component_info[c].connected_pins # << >>

\* the distance between p and q is at least d / 2 units, d a whole number,
\* up to the rounding of the tabulated cosines (one model unit per coordinate)
C28_AtLeastHalves(p, q, d) == 4 * Dist2(p, q) >= (d * U - 4) * (d * U - 4)

\* C28: for every recorded component the achieved-ideal flag (distance to
\* ideal < 0.5) is true if and only if the final position is the ideal
\* position exactly, that is the component was accepted at attempt 0: every
\* probe lies at least 1.0 from the anchor and every fallback position at
\* least 0.5 from the ideal, so no final position lies at a distance
\* strictly between 0 and 0.5.
C28_AchievedIffExact ==
    /\ [](\A c \in Placed :
              /\ CheckIfOptimalPosition(c, adjusted_positions[c]) <=>
                     adjusted_positions[c].position = CalculateOptimalPosition(c)
              /\ c \in DOMAIN placement_info =>
                     (placement_info[c].optimal_position_achieved <=>
                          adjusted_positions[c].position = placement_info[c].optimal_pos)
              /\ \/ Dist2(adjusted_positions[c].position, CalculateOptimalPosition(c)) = 0
                 \/ C28_AtLeastHalves(adjusted_positions[c].position,
                                      CalculateOptimalPosition(c), 1))
    /\ []((pc = "search" /\ attempt >= 1) =>
              C28_AtLeastHalves(cand, CalculateOptimalPosition(Current), 2))
    /\ [](\A c \in DOMAIN placed_by :
              placed_by[c] = "fallback" =>
                  4 * Dist2(adjusted_positions[c].position, CalculateOptimalPosition(c)) >= U * U)
    /\ [][ (pc = "search" /\ pc' = "loop") =>
               ( (4 * Dist2(adjusted_positions'[Current].position,
                            CalculateOptimalPosition(Current)) < U * U)
                 <=> (attempt = 0 /\ placed_by'[Current] = "accept") ) ]_vars

\* a finished layout with its diagnostics in which a component was accepted
\* at its ideal position and carries the flag
C28_Witness ==
    /\ pc = "done"
    /\ \E c \in DOMAIN placement_info :
          /\ placement_info[c].optimal_position_achieved
          /\ adjusted_positions[c].position = CalculateOptimalPosition(c)
          /\ placed_by[c] = "accept"

\* the distance between p and q is at most d / 2 units, up to the rounding
\* of the tabulated cosines
C29_AtMostHalves(p, q, d) == 4 * Dist2(p, q) <= (d * U + 4) * (d * U + 4)

\* C29: the 50 candidates tested for a component are the ideal position
\* and then the probes generated from the attempt indices 0 to 48, none
\* farther than 21.0 from the anchor; the probe generated after the
\* collision at attempt index 49 (radius 21.5) is computed but neither tested
\* nor returned: the fallback follows without it being checked.
C29_LastProbeUntested ==
    /\ []((pc = "search" /\ attempt < max_attempts) =>
              /\ cand = IF attempt = 0 THEN anchor_used[Current]
                        ELSE C20_Probe(anchor_used[Current], attempt - 1)
              /\ attempt - 1 <= 48
              /\ C29_AtMostHalves(cand, anchor_used[Current], 42))
    /\ []((pc = "search" /\ attempt = max_attempts) =>
              /\ cand = C20_Probe(anchor_used[Current], 49)
              /\ C28_AtLeastHalves(cand, anchor_used[Current], 43)
              /\ ~ ENABLED Accept
              /\ ENABLED Fallback)
    /\ [][ (pc = "search" /\ pc' = "loop") =>
               IF attempt = max_attempts
               THEN /\ placed_by'[Current] = "fallback"
                    /\ adjusted_positions'[Current].position = C22_Far(component_info[Current].connected_pins)
                    /\ adjusted_positions'[Current].position # cand
               ELSE /\ placed_by'[Current] = "accept"
                    /\ adjusted_positions'[Current].position = cand
                    /\ C29_AtMostHalves(cand, anchor_used[Current], 42)
         ]_vars

\* the probe of radius 21.5 stands computed after the 50th collision, in a
\* run that has already placed another component
C29_Witness ==
    /\ pc = "search"
    /\ attempt = max_attempts
    /\ cand = NextCandidate(original, max_attempts - 1)
    /\ DOMAIN placed_by # {}

\* centre and size <<x, y, w, h>> of the device and of every placed component
C30_Entities ==
    { <<chip_info.position[1], chip_info.position[2],
        chip_info.bbox.width, chip_info.bbox.height>> } \cup
    { <<adjusted_positions[c].position[1], adjusted_positions[c].position[2],
        adjusted_positions[c].width, adjusted_positions[c].height>> : c \in Placed }

\* C30: for the device and every component of a resolved layout, fallback
\* placements included, the normalised values before clamping satisfy
\* 0 < cx < 1, 0 < cy < 1, 0 < w < 1, 0 < h < 1, the normalised box lies
\* inside the unit square, and the clamping changes no value.
C30_NoClampingNeeded ==
    yolo # None =>
        \A e \in C30_Entities :
            LET canvas_w == yolo.canvas_size[1]
                canvas_h == yolo.canvas_size[2]
                cx == e[1] - yolo.canvas_origin[1]
                cy == yolo.canvas_origin[2] - e[2]
                norm == ConvertToYoloFormat(e[1], e[2], e[3], e[4], CalculateCanvasSize)
            IN  /\ 0 < cx /\ cx < canvas_w
                /\ 0 < cy /\ cy < canvas_h
                /\ 0 < e[3] /\ e[3] < canvas_w
                /\ 0 < e[4] /\ e[4] < canvas_h
                /\ 0 <= 2 * cx - e[3] /\ 2 * cx + e[3] <= 2 * canvas_w
                /\ 0 <= 2 * cy - e[4] /\ 2 * cy + e[4] <= 2 * canvas_h
                /\ norm.x_center = <<cx, canvas_w>>
                /\ norm.y_center = <<cy, canvas_h>>
                /\ norm.width = <<e[3], canvas_w>>
                /\ norm.height = <<e[4], canvas_h>>

====
